---- MODULE Spec2Model ----
(***************************************************************************)
(* Role-based authorization of the ResilienceHub API: the UserRole table,  *)
(* django-guardian's per-object permission rows, the GuardianMixin         *)
(* mutations and decisions, the v2 role-management endpoints and the       *)
(* resource-creation hooks.                                                *)
(***************************************************************************)
EXTENDS Naturals, FiniteSets, Sequences, TLC

VARIABLES is_staff, is_superuser, exists, pk, security_level, userRole, perms, pc, loc,
          scenario

vars == <<is_staff, is_superuser, exists, pk, security_level, userRole, perms, pc, loc, scenario>>

db == <<userRole, perms>>

---------------------------------------------------------------------------
(* Principals and resources *)

Users == {"u1", "u2"}

Anonymous == "anonymous"

Principals == Users \cup {Anonymous}

Resources == {"investigation", "investigation2", "study", "assay", "sample"}

Inv == "investigation"

(* _meta.model_name of the object *)
model_name(r) == IF r = "investigation2" THEN "investigation" ELSE r

(* Study.investigation and Assay.study foreign keys *)
parent(r) ==
    CASE r = "study" -> "investigation"
      [] r = "assay" -> "study"
      [] OTHER -> "none"

SecurityLevel == {"public", "internal", "restricted", "confidential"}

NoRole == "none"

ROLE_CHOICES == {"guest", "internal", "authorized", "contributor", "owner", "admin"}

(* roles a caller can pass: the keys of ROLE_PERMISSIONS and admin, which is not one *)
RoleInputs == {"guest", "internal", "authorized", "contributor", "owner", "admin"}

PERMISSION_VIEW == "view"

PERMISSION_CHANGE == "change"

PERMISSION_DELETE == "delete"

PERMISSION_MANAGE_PERMS == "manage_permissions"

(* codename stems of the v2 module's patterns, before str.format(model=...) *)
VIEW_PERMISSION == "view_{model}"

CHANGE_PERMISSION == "change_{model}"

DELETE_PERMISSION == "delete_{model}"

MANAGE_PERMISSION == "manage_permissions_{model}"

Codenames == {PERMISSION_VIEW, PERMISSION_CHANGE, PERMISSION_DELETE, PERMISSION_MANAGE_PERMS,
              VIEW_PERMISSION, CHANGE_PERMISSION, DELETE_PERMISSION, MANAGE_PERMISSION}

RoleKeys == {"guest", "internal", "authorized", "contributor", "owner"}

(* the table with the contributor row holding the view permission only *)
ROLE_PERMISSIONS_ContributorReadOnly(role) ==
    CASE role = "guest" -> {}
      [] role = "internal" -> {PERMISSION_VIEW}
      [] role = "authorized" -> {PERMISSION_VIEW}
      [] role = "contributor" -> {PERMISSION_VIEW}
      [] role = "owner" -> {PERMISSION_VIEW, PERMISSION_CHANGE, PERMISSION_DELETE, PERMISSION_MANAGE_PERMS}
      [] OTHER -> {}

(* ROLE_PERMISSIONS of api/permissions.py *)
ROLE_PERMISSIONS(role) ==
    CASE role = "guest" -> {}
      [] role = "internal" -> {PERMISSION_VIEW}
      [] role = "authorized" -> {PERMISSION_VIEW}
      [] role = "contributor" -> {PERMISSION_VIEW, PERMISSION_CHANGE}
      [] role = "owner" -> {PERMISSION_VIEW, PERMISSION_CHANGE, PERMISSION_DELETE, PERMISSION_MANAGE_PERMS}
      [] OTHER -> {}

V2RoleKeys == {"authorized", "contributor", "owner"}

V2_ROLE_PERMISSIONS(role) ==
    CASE role = "authorized" -> {VIEW_PERMISSION}
      [] role = "contributor" -> {VIEW_PERMISSION, CHANGE_PERMISSION}
      [] role = "owner" -> {VIEW_PERMISSION, CHANGE_PERMISSION, DELETE_PERMISSION, MANAGE_PERMISSION}
      [] OTHER -> {}

(* perm_pattern.format(model=model_name): the codename stem the pattern names *)
FormatPattern(p) ==
    CASE p = VIEW_PERMISSION -> PERMISSION_VIEW
      [] p = CHANGE_PERMISSION -> PERMISSION_CHANGE
      [] p = DELETE_PERMISSION -> PERMISSION_DELETE
      [] p = MANAGE_PERMISSION -> PERMISSION_MANAGE_PERMS
      [] OTHER -> p

---------------------------------------------------------------------------
(* guardian and django.contrib.auth reads *)

is_authenticated(p) == p # Anonymous

Superuser(p) == is_authenticated(p) /\ is_superuser[p]

Staff(p) == is_authenticated(p) /\ is_staff[p]

(* guardian.shortcuts.get_perms: a superuser is reported every permission of the content type *)
get_perms(P, p, r) ==
    IF ~is_authenticated(p) THEN {}
    ELSE IF is_superuser[p] THEN Codenames
    ELSE P[p][r]

(* User.has_perm(perm, obj) through the guardian backend *)
has_perm(P, p, perm, r) ==
    IF ~is_authenticated(p) THEN FALSE
    ELSE IF is_superuser[p] THEN TRUE
    ELSE perm \in P[p][r]

(* guardian.shortcuts.get_users_with_perms(obj): users holding any row on obj *)
get_users_with_perms(P, r) == {u \in Users : P[u][r] # {}}

---------------------------------------------------------------------------
(* GuardianMixin reads (api/permissions.py) *)

(* GuardianMixin.get_user_role: the role is derived from the permission rows *)
get_user_role(P, p, r) ==
    IF ~is_authenticated(p) THEN "guest"
    ELSE IF is_superuser[p] THEN "admin"
    ELSE LET user_perms == get_perms(P, p, r) IN
         IF ROLE_PERMISSIONS("owner") \subseteq user_perms THEN "owner"
         ELSE IF ROLE_PERMISSIONS("contributor") \subseteq user_perms THEN "contributor"
         ELSE IF ROLE_PERMISSIONS("authorized") \subseteq user_perms THEN "authorized"
         ELSE IF is_staff[p] THEN "internal"
         ELSE "guest"

(* Investigation/Study.get_users_by_role: users with a UserRole row of that role *)
get_users_by_role(R, r, role) == {u \in Users : R[u][r] = role}

(* Investigation/Study.set_user_role: update_or_create of the UserRole row only *)
ModelSetUserRole(R, u, r, role) == [R EXCEPT ![u][r] = role]

(* Investigation/Study.clear_user_role: delete of the UserRole row only *)
ModelClearUserRole(R, u, r) == [R EXCEPT ![u][r] = NoRole]

(* the guard of remove_user_permissions: TRUE when ValidationError is raised *)
LastOwnerGuard(R, P, u, r) ==
    /\ get_user_role(P, u, r) = "owner"
    /\ Cardinality(get_users_by_role(R, r, "owner")) <= 1

(* GuardianMixin.remove_user_permissions, whole call *)
RemoveUserPermissions(R, P, u, r) ==
    IF LastOwnerGuard(R, P, u, r)
    THEN [R |-> R, P |-> P, result |-> "LastOwnerError"]
    ELSE [R |-> ModelClearUserRole(R, u, r),
          P |-> [P EXCEPT ![u][r] = @ \ ROLE_PERMISSIONS("owner")],
          result |-> "ok"]

(* Meta.permissions: only Investigation and Study declare manage_permissions_<model> *)
HasManagePermission(r) == model_name(r) \in {"investigation", "study"}

(* GuardianMixin.assign_role, whole call; assign_perm of a codename that has no *)
(* Permission row raises after the earlier codenames of the loop were granted  *)
AssignRole(R, P, u, r, role) ==
    IF role \notin RoleKeys
    THEN [R |-> R, P |-> P, result |-> "InvalidRoleError"]
    ELSE LET rem == RemoveUserPermissions(R, P, u, r) IN
         IF rem.result # "ok" THEN rem
         ELSE IF PERMISSION_MANAGE_PERMS \in ROLE_PERMISSIONS(role) /\ ~HasManagePermission(r)
         THEN [R |-> rem.R,
               P |-> [rem.P EXCEPT ![u][r] =
                         @ \cup {PERMISSION_VIEW, PERMISSION_CHANGE, PERMISSION_DELETE}],
               result |-> "PermissionDoesNotExist"]
         ELSE [R |-> ModelSetUserRole(rem.R, u, r, role),
               P |-> [rem.P EXCEPT ![u][r] = @ \cup ROLE_PERMISSIONS(role)],
               result |-> "ok"]

(* GuardianMixin.can_write *)
can_write(P, p, r) == has_perm(P, p, PERMISSION_CHANGE, r)

(* GuardianMixin.can_manage_permissions *)
can_manage_permissions(P, p, r) == has_perm(P, p, PERMISSION_MANAGE_PERMS, r)

(* IsOwnerOrAdmin.has_object_permission *)
IsOwnerOrAdmin(P, p, r) ==
    IF ~is_authenticated(p) THEN FALSE
    ELSE IF is_superuser[p] THEN TRUE
    ELSE has_perm(P, p, PERMISSION_MANAGE_PERMS, r)

(* the security_level field; for an Assay the property that reads the study's *)
obj_security_level(r) == IF r = "assay" THEN security_level["study"] ELSE security_level[r]

(* the RBAC matrix with the public row asking for a role, as the internal row does *)
MatrixRead_PublicNeedsRole(level, role) ==
    CASE level = "public" -> role \in {"internal", "authorized", "contributor", "owner", "admin"}
      [] level = "internal" -> role \in {"internal", "authorized", "contributor", "owner", "admin"}
      [] level = "restricted" -> role \in {"authorized", "contributor", "owner", "admin"}
      [] level = "confidential" -> role \in {"authorized", "contributor", "owner", "admin"}
      [] OTHER -> FALSE

(* the RBAC matrix of _check_security_level_read for a given role *)
MatrixRead(level, role) ==
    CASE level = "public" -> TRUE
      [] level = "internal" -> role \in {"internal", "authorized", "contributor", "owner", "admin"}
      [] level = "restricted" -> role \in {"authorized", "contributor", "owner", "admin"}
      [] level = "confidential" -> role \in {"authorized", "contributor", "owner", "admin"}
      [] OTHER -> FALSE

(* GuardianMixin._check_security_level_read *)
BaseCheckSecurityLevelRead(P, p, r) ==
    IF ~is_authenticated(p) THEN obj_security_level(r) = "public"
    ELSE IF is_superuser[p] THEN TRUE
    ELSE MatrixRead(obj_security_level(r), get_user_role(P, p, r))

(* Study._check_security_level_read: falls back on the role held on the investigation *)
StudyCheckSecurityLevelRead(P, p, r) ==
    IF BaseCheckSecurityLevelRead(P, p, r) THEN TRUE
    ELSE LET inv_role == get_user_role(P, p, parent(r)) IN
         CASE obj_security_level(r) = "public" -> TRUE
           [] obj_security_level(r) = "internal" ->
                inv_role \in {"internal", "authorized", "contributor", "owner", "admin"}
           [] obj_security_level(r) = "restricted" ->
                inv_role \in {"authorized", "contributor", "owner", "admin"}
           [] obj_security_level(r) = "confidential" -> inv_role \in {"owner", "admin"}
           [] OTHER -> FALSE

(* _check_security_level_read as the object's class resolves it; an Assay delegates to its study *)
check_security_level_read(P, p, r) ==
    CASE r = "study" -> StudyCheckSecurityLevelRead(P, p, r)
      [] r = "assay" -> StudyCheckSecurityLevelRead(P, p, "study")
      [] OTHER -> BaseCheckSecurityLevelRead(P, p, r)

(* GuardianMixin.can_read *)
can_read(P, p, r) ==
    IF has_perm(P, p, PERMISSION_VIEW, r) THEN TRUE
    ELSE check_security_level_read(P, p, r)

(* GuardianMixin.is_visible *)
is_visible(P, p, r) ==
    IF obj_security_level(r) = "confidential" THEN FALSE ELSE can_read(P, p, r)

---------------------------------------------------------------------------
(* Listing paths of the investigations *)

Investigations == {r \in Resources : model_name(r) = "investigation"}

(* Investigation.objects.all() *)
base_queryset == {r \in Investigations : exists[r]}

RECURSIVE order_by_id(_)
(* queryset.order_by('id'), evaluated to the list of its rows *)
order_by_id(S) ==
    IF S = {} THEN <<>>
    ELSE LET first == CHOOSE r \in S : \A q \in S : pk[r] <= pk[q]
         IN <<first>> \o order_by_id(S \ {first})

(* ObjectPermissionChecker(user).has_perm(perm, obj) *)
checker_has_perm(P, p, perm, r) == has_perm(P, p, perm, r)

(* InvestigationService.list *)
InvestigationServiceList(P, p) ==
    order_by_id({r \in base_queryset :
                    /\ checker_has_perm(P, p, PERMISSION_VIEW, r)
                    /\ (security_level[r] # "confidential" \/ has_perm(P, p, PERMISSION_VIEW, r))})

(* v2 InvestigationViewSet.get_queryset *)
V2InvestigationQueryset(P, p) ==
    IF Superuser(p) THEN order_by_id(base_queryset)
    ELSE order_by_id({r \in base_queryset :
                         /\ checker_has_perm(P, p, PERMISSION_VIEW, r)
                         /\ (security_level[r] # "confidential"
                                \/ has_perm(P, p, PERMISSION_VIEW, r))})

(* v1 InvestigationViewSet.get_queryset *)
V1InvestigationQueryset(P, p) == order_by_id({r \in base_queryset : can_read(P, p, r)})

(* ObjectVisibilityFilterMixin.get_queryset over the investigations (Meta.ordering id) *)
ObjectVisibilityFilterQueryset(P, p) ==
    order_by_id({r \in base_queryset :
                    /\ obj_security_level(r) # "confidential"
                    /\ checker_has_perm(P, p, PERMISSION_VIEW, r)})

(* Single-item retrieval of an investigation: the outcome of get_object *)

(* v3 InvestigationService.get *)
InvestigationServiceGet(P, p, r) ==
    IF ~exists[r] THEN "Http404"
    ELSE IF ~has_perm(P, p, PERMISSION_VIEW, r) THEN "PermissionDenied"
    ELSE "ok"

(* v2 InvestigationViewSet.get_object behind permission_classes IsAuthenticated *)
V2InvestigationGetObject(P, p, r) ==
    IF ~is_authenticated(p) THEN "NotAuthenticated"
    ELSE IF ~exists[r] THEN "Http404"
    ELSE IF ~has_perm(P, p, PERMISSION_VIEW, r) THEN "PermissionDenied"
    ELSE "ok"

(* v1 InvestigationViewSet.get_object *)
V1InvestigationGetObject(P, p, r) ==
    IF ~exists[r] THEN "Http404"
    ELSE IF ~can_read(P, p, r) THEN "PermissionDenied"
    ELSE "ok"

(* Listing paths of the studies and the assays (v2) *)

Studies == {r \in Resources : model_name(r) = "study"}

Assays == {r \in Resources : model_name(r) = "assay"}

(* the per-row decision of StudyViewSet.get_queryset and AssayViewSet.get_queryset *)
(* for a user who is not a superuser; study is the row's study                     *)
V2StudyRowVisible(P, p, study) ==
    IF security_level[study] = "public" THEN TRUE
    ELSE IF /\ checker_has_perm(P, p, PERMISSION_VIEW, study)
            /\ (security_level[study] # "confidential"
                  \/ checker_has_perm(P, p, PERMISSION_VIEW, study))
    THEN TRUE
    ELSE /\ checker_has_perm(P, p, PERMISSION_VIEW, parent(study))
         /\ \/ security_level[study] = "internal" /\ is_staff[p]
            \/ checker_has_perm(P, p, PERMISSION_CHANGE, parent(study))

(* v2 StudyViewSet.get_queryset behind permission_classes IsAuthenticated *)
V2StudyQueryset(P, p) ==
    IF ~is_authenticated(p) THEN {}
    ELSE IF is_superuser[p] THEN {s \in Studies : exists[s]}
    ELSE {s \in Studies : exists[s] /\ V2StudyRowVisible(P, p, s)}

(* v2 AssayViewSet.get_queryset behind permission_classes IsAuthenticated *)
V2AssayQueryset(P, p) ==
    IF ~is_authenticated(p) THEN {}
    ELSE IF is_superuser[p] THEN {a \in Assays : exists[a]}
    ELSE {a \in Assays : exists[a] /\ V2StudyRowVisible(P, p, parent(a))}

---------------------------------------------------------------------------
(* module-level helpers of api/permissions.py and the v2 endpoints *)

(* permissions.get_user_role: the role is read from the UserRole table *)
util_get_user_role(R, p, r) ==
    IF ~is_authenticated(p) THEN "guest"
    ELSE IF is_superuser[p] THEN "admin"
    ELSE IF R[p][r] # NoRole THEN R[p][r]
    ELSE "guest"

(* permissions.set_user_role: get_perms yields bare codenames, new_permissions *)
(* carries the app label, so the membership test compares the two forms *)
UtilSetUserRole(R, P, u, r, role) ==
    IF role \notin RoleKeys
    THEN [R |-> R, P |-> P, result |-> "InvalidRoleError"]
    ELSE LET current_perms == {<<"", c>> : c \in get_perms(P, u, r)}
             new_permissions == {<<"api", c>> : c \in ROLE_PERMISSIONS(role)}
             removed == {x \in current_perms : x \notin new_permissions}
         IN [R |-> ModelSetUserRole(R, u, r, role),
             P |-> [P EXCEPT ![u][r] = (@ \ {x[2] : x \in removed})
                                          \cup {x[2] : x \in new_permissions}],
             result |-> "ok"]

(* permissions.clear_user_role: the last-owner ValueError is raised inside *)
(* try/except Exception and swallowed, so the deletion always goes ahead *)
UtilClearUserRole(R, P, u, r) ==
    [R |-> ModelClearUserRole(R, u, r),
     P |-> [P EXCEPT ![u][r] = @ \ {"view", "change", "delete", "manage_permissions"}],
     result |-> "ok"]

(* body of assign_investigation_role / assign_study_role after the lookups *)
EndpointAssignRole(R, P, u, r, role) ==
    IF role \notin {"authorized", "contributor", "owner"}
    THEN [R |-> R, P |-> P, result |-> "InvalidRoleError"]
    ELSE LET cleared == P[u][r] \ get_perms(P, u, r)
             granted == {FormatPattern(pat) : pat \in V2_ROLE_PERMISSIONS(role)}
         IN [R |-> ModelSetUserRole(R, u, r, role),
             P |-> [P EXCEPT ![u][r] = cleared \cup granted],
             result |-> "ok"]

(* body of remove_investigation_user after the lookups *)
EndpointRemoveUser(R, P, u, r) ==
    LET owners == {x \in get_users_with_perms(P, r) : get_user_role(P, x, r) = "owner"} IN
    IF get_user_role(P, u, r) = "owner" /\ Cardinality(owners) <= 1
    THEN [R |-> R, P |-> P, result |-> "LastOwnerError"]
    ELSE [R |-> ModelClearUserRole(R, u, r),
          P |-> [P EXCEPT ![u][r] = @ \ get_perms(P, u, r)],
          result |-> "ok"]

(* v2 set_owner_permission: the codename is built from the unformatted pattern *)
SetOwnerPermission(R, P, u, r) ==
    [R |-> ModelSetUserRole(R, u, r, "owner"),
     P |-> [P EXCEPT ![u][r] = @ \cup V2_ROLE_PERMISSIONS("owner")],
     result |-> "ok"]

(* v3 assign_owner_permissions_to_model *)
AssignOwnerPermissionsToModel(R, P, u, r) ==
    [R |-> ModelSetUserRole(R, u, r, "owner"),
     P |-> [P EXCEPT ![u][r] = @ \cup ROLE_PERMISSIONS("owner")],
     result |-> "ok"]

---------------------------------------------------------------------------
(* State machine with one action per handler *)

Procs == {"A", "B"}

Idle == [p \in Procs |-> "idle"]

NoLocals == [p \in Procs |-> [op |-> "none", user |-> "none", role |-> "none",
                               current_role |-> "none", todo |-> <<>>, result |-> "none"]]

(* the position of the access test and its two users *)
NoScenario == [at |-> "start", U1 |-> "none", U2 |-> "none"]

UserKinds == {<<FALSE, FALSE>>, <<TRUE, FALSE>>, <<TRUE, TRUE>>}

Init ==
    /\ \E k \in [Users -> UserKinds] :
          /\ is_staff = [u \in Users |-> k[u][1]]
          /\ is_superuser = [u \in Users |-> k[u][2]]
    /\ exists = [r \in Resources |-> FALSE]
    /\ pk = [r \in Resources |-> 0]
    /\ security_level = [r \in Resources |-> "confidential"]
    /\ userRole = [u \in Users |-> [r \in Resources |-> NoRole]]
    /\ perms = [u \in Users |-> [r \in Resources |-> {}]]
    /\ pc = Idle
    /\ loc = NoLocals
    /\ scenario = NoScenario

Commit(out) ==
    /\ userRole' = out.R
    /\ perms' = out.P
    /\ UNCHANGED <<is_staff, is_superuser, exists, pk, security_level, pc, loc, scenario>>

(* the AutoField id given to a new row of the model's table *)
NextPk(r) == 1 + Cardinality({q \in Resources : exists[q] /\ model_name(q) = model_name(r)})

(* a row is created once: the id of a deleted row is not given again *)
CanCreate(r) ==
    IF parent(r) = "none" THEN ~exists[r] /\ pk[r] = 0
    ELSE ~exists[r] /\ pk[r] = 0 /\ exists[parent(r)]

Created(r, lvl, out) ==
    /\ exists' = [exists EXCEPT ![r] = TRUE]
    /\ pk' = [pk EXCEPT ![r] = NextPk(r)]
    /\ security_level' = [security_level EXCEPT ![r] = lvl]
    /\ userRole' = out.R
    /\ perms' = out.P
    /\ UNCHANGED <<is_staff, is_superuser, pc, loc, scenario>>

(* v2 InvestigationViewSet/StudyViewSet.perform_create *)
perform_create_v2(c, r, lvl) ==
    /\ CanCreate(r)
    /\ Created(r, lvl, SetOwnerPermission(userRole, perms, c, r))

(* v3 InvestigationService.create *)
create_v3(c, r, lvl) ==
    /\ r \in Investigations
    /\ CanCreate(r)
    /\ Created(r, lvl, AssignOwnerPermissionsToModel(userRole, perms, c, r))

(* InvestigationAdmin/StudyAdmin.save_model for a new object *)
save_model(c, r, lvl) ==
    /\ is_staff[c]
    /\ CanCreate(r)
    /\ Created(r, lvl, [R |-> ModelSetUserRole(userRole, c, r, "owner"), P |-> perms, result |-> "ok"])

(* AssayViewSet/SampleViewSet create: ModelViewSet.perform_create has no owner hook; *)
(* AssaySerializer.create stores the owner role of the caller, SampleSerializer nothing *)
create_default(c, r, lvl) ==
    /\ r \in {"assay", "sample"}
    /\ r = "assay" => lvl = "confidential"
    /\ CanCreate(r)
    /\ Created(r, lvl, [R |-> IF r = "assay" THEN ModelSetUserRole(userRole, c, r, "owner")
                                ELSE userRole,
                        P |-> perms, result |-> "ok"])

assign_role(u, r, role) ==
    /\ exists[r]
    /\ Commit(AssignRole(userRole, perms, u, r, role))

remove_user_permissions(u, r) ==
    /\ exists[r]
    /\ Commit(RemoveUserPermissions(userRole, perms, u, r))

(* Investigation/Study.set_user_role called on the model directly *)
model_set_user_role(u, r, role) ==
    /\ exists[r]
    /\ Commit([R |-> ModelSetUserRole(userRole, u, r, role), P |-> perms, result |-> "ok"])

(* Investigation/Study.clear_user_role called on the model directly *)
model_clear_user_role(u, r) ==
    /\ exists[r]
    /\ Commit([R |-> ModelClearUserRole(userRole, u, r), P |-> perms, result |-> "ok"])

util_set_user_role(u, r, role) ==
    /\ exists[r]
    /\ Commit(UtilSetUserRole(userRole, perms, u, r, role))

util_clear_user_role(u, r) ==
    /\ exists[r]
    /\ Commit(UtilClearUserRole(userRole, perms, u, r))

(* UserRoleManagementViewSet.assign_investigation_role *)
assign_investigation_role(caller, u, role) ==
    /\ exists["investigation"]
    /\ IsOwnerOrAdmin(perms, caller, "investigation")
    /\ Commit(EndpointAssignRole(userRole, perms, u, "investigation", role))

(* UserRoleManagementViewSet.remove_investigation_user *)
remove_investigation_user(caller, u) ==
    /\ exists["investigation"]
    /\ IsOwnerOrAdmin(perms, caller, "investigation")
    /\ Commit(EndpointRemoveUser(userRole, perms, u, "investigation"))

(* UserRoleManagementViewSet.assign_study_role *)
assign_study_role(caller, u, role) ==
    /\ exists["study"]
    /\ IsOwnerOrAdmin(perms, caller, "study")
    /\ Commit(EndpointAssignRole(userRole, perms, u, "study", role))

Next ==
    \/ \E c \in Users, lvl \in SecurityLevel : create_v3(c, Inv, lvl)
    \/ \E c \in Users, lvl \in SecurityLevel : save_model(c, Inv, lvl)
    \/ \E c \in Users, lvl \in SecurityLevel : perform_create_v2(c, Inv, lvl)
    \/ \E u \in Users, role \in RoleInputs : assign_role(u, Inv, role)
    \/ \E u \in Users : remove_user_permissions(u, Inv)
    \/ \E u \in Users, role \in RoleInputs : model_set_user_role(u, Inv, role)
    \/ \E u \in Users : model_clear_user_role(u, Inv)
    \/ \E u \in Users, role \in RoleInputs : util_set_user_role(u, Inv, role)
    \/ \E u \in Users : util_clear_user_role(u, Inv)
    \/ \E c \in Users, u \in Users, role \in RoleInputs : assign_investigation_role(c, u, role)
    \/ \E c \in Users, u \in Users : remove_investigation_user(c, u)

Spec == Init /\ [][Next]_vars

---------------------------------------------------------------------------
(* One user on the investigation and its study: the hierarchy *)

Tree == "u1"

TreeResources == {"investigation", "study"}

InitTree ==
    /\ \E k \in UserKinds :
          /\ is_staff = [u \in Users |-> IF u = Tree THEN k[1] ELSE FALSE]
          /\ is_superuser = [u \in Users |-> IF u = Tree THEN k[2] ELSE FALSE]
    /\ exists = [r \in Resources |-> FALSE]
    /\ pk = [r \in Resources |-> 0]
    /\ security_level = [r \in Resources |-> "confidential"]
    /\ userRole = [u \in Users |-> [r \in Resources |-> NoRole]]
    /\ perms = [u \in Users |-> [r \in Resources |-> {}]]
    /\ pc = Idle
    /\ loc = NoLocals
    /\ scenario = NoScenario

NextTree ==
    \/ \E r \in TreeResources, lvl \in SecurityLevel : create_v3(Tree, r, lvl)
    \/ \E r \in TreeResources, lvl \in SecurityLevel : save_model(Tree, r, lvl)
    \/ \E r \in TreeResources, lvl \in SecurityLevel : perform_create_v2(Tree, r, lvl)
    \/ \E r \in TreeResources, role \in RoleInputs : assign_role(Tree, r, role)
    \/ \E r \in TreeResources : remove_user_permissions(Tree, r)
    \/ \E r \in TreeResources, role \in RoleInputs : model_set_user_role(Tree, r, role)
    \/ \E r \in TreeResources : model_clear_user_role(Tree, r)
    \/ \E role \in RoleInputs : assign_investigation_role(Tree, Tree, role)
    \/ remove_investigation_user(Tree, Tree)
    \/ \E role \in RoleInputs : assign_study_role(Tree, Tree, role)

SpecTree == InitTree /\ [][NextTree]_vars

---------------------------------------------------------------------------
(* One user on the whole hierarchy: investigation, study, assay, and a sample *)

HierResources == {"investigation", "study", "assay", "sample"}

NextHier ==
    \/ \E lvl \in SecurityLevel : create_v3(Tree, Inv, lvl)
    \/ \E lvl \in SecurityLevel : save_model(Tree, Inv, lvl)
    \/ \E lvl \in SecurityLevel : perform_create_v2(Tree, "study", lvl)
    \/ \E r \in HierResources, lvl \in SecurityLevel : create_default(Tree, r, lvl)
    \/ \E r \in HierResources, role \in RoleInputs : assign_role(Tree, r, role)
    \/ \E r \in HierResources : remove_user_permissions(Tree, r)

SpecHier == InitTree /\ [][NextHier]_vars

---------------------------------------------------------------------------
(* One user on two investigations: the listings *)

NextList ==
    \/ \E r \in Investigations, lvl \in SecurityLevel : create_v3(Tree, r, lvl)
    \/ \E r \in Investigations, lvl \in SecurityLevel : save_model(Tree, r, lvl)
    \/ \E r \in Investigations, role \in RoleInputs : assign_role(Tree, r, role)
    \/ \E r \in Investigations : remove_user_permissions(Tree, r)

SpecList == InitTree /\ [][NextList]_vars

---------------------------------------------------------------------------
(* The access test: a restricted investigation, its owner and a second user, *)
(* while other requests work on another investigation                        *)

Inv2 == "investigation2"

InitScenario ==
    /\ is_staff = [u \in Users |-> FALSE]
    /\ is_superuser = [u \in Users |-> FALSE]
    /\ exists = [r \in Resources |-> FALSE]
    /\ pk = [r \in Resources |-> 0]
    /\ security_level = [r \in Resources |-> "confidential"]
    /\ userRole = [u \in Users |-> [r \in Resources |-> NoRole]]
    /\ perms = [u \in Users |-> [r \in Resources |-> {}]]
    /\ pc = Idle
    /\ loc = NoLocals
    /\ scenario = NoScenario

(* Investigation.objects.create(..., security_level=SecurityLevel.RESTRICTED) *)
sc_create(a, b) ==
    /\ scenario.at = "start"
    /\ a # b
    /\ CanCreate(Inv)
    /\ exists' = [exists EXCEPT ![Inv] = TRUE]
    /\ pk' = [pk EXCEPT ![Inv] = NextPk(Inv)]
    /\ security_level' = [security_level EXCEPT ![Inv] = "restricted"]
    /\ scenario' = [at |-> "created", U1 |-> a, U2 |-> b]
    /\ UNCHANGED <<is_staff, is_superuser, userRole, perms, pc, loc>>

(* investigation.assign_role(user, role) as the next call of the test *)
sc_assign(from, user, role, to) ==
    /\ scenario.at = from
    /\ LET out == AssignRole(userRole, perms, user, Inv, role) IN
       /\ userRole' = out.R
       /\ perms' = out.P
    /\ scenario' = [scenario EXCEPT !.at = to]
    /\ UNCHANGED <<is_staff, is_superuser, exists, pk, security_level, pc, loc>>

NextScenario ==
    \/ \E a \in Users, b \in Users : sc_create(a, b)
    \/ sc_assign("created", scenario.U1, "owner", "owner")
    \/ sc_assign("owner", scenario.U2, "authorized", "authorized")
    \/ sc_assign("authorized", scenario.U2, "contributor", "contributor")
    \/ \E c \in Users, lvl \in SecurityLevel : create_v3(c, Inv2, lvl)
    \/ \E u \in Users, role \in RoleInputs : assign_role(u, Inv2, role)
    \/ \E u \in Users : remove_user_permissions(u, Inv2)

SpecScenario == InitScenario /\ [][NextScenario]_vars

---------------------------------------------------------------------------
(* A second user given roles on the investigation and the study of the first *)

Member == "u2"

NextShare ==
    \/ \E lvl \in SecurityLevel : create_v3(Tree, Inv, lvl)
    \/ \E lvl \in SecurityLevel : perform_create_v2(Tree, "study", lvl)
    \/ \E lvl \in SecurityLevel : create_default(Tree, "assay", lvl)
    \/ \E r \in TreeResources, role \in RoleInputs : assign_role(Member, r, role)
    \/ \E r \in TreeResources : remove_user_permissions(Member, r)

SpecShare == Init /\ [][NextShare]_vars

---------------------------------------------------------------------------
(* Deletion of resources and of users; the pre_delete receivers of api/signals.py *)

(* the rows Model.delete() collects through ForeignKey(on_delete=CASCADE) *)
Collected(r) ==
    {q \in Resources : \/ q = r
                       \/ parent(q) = r
                       \/ (parent(q) # "none" /\ parent(parent(q)) = r)}

(* Model.delete() of an investigation, study or assay: UserRole points at the   *)
(* object through a GenericForeignKey and the models declare no GenericRelation, *)
(* so neither the UserRole rows nor guardian's object permissions are collected  *)
DeleteResource(R, P, r) == [R |-> R, P |-> P, result |-> "ok"]

(* User.delete(): UserRole.user and guardian's UserObjectPermission.user cascade *)
DeleteUser(R, P, u) ==
    [R |-> [R EXCEPT ![u] = [r \in Resources |-> NoRole]],
     P |-> [P EXCEPT ![u] = [r \in Resources |-> {}]],
     result |-> "ok"]

(* except: pass around the body of the try block *)
BareExceptPass(raised) == "ok"

(* prevent_delete_last_investigation_owner(sender, instance): role is instance.role, *)
(* owner_count the number of owner rows of instance.investigation, gone whether     *)
(* reading instance.investigation fails                                             *)
prevent_delete_last_investigation_owner(role, owner_count, gone) ==
    IF role = "owner" /\ owner_count <= 1
    THEN BareExceptPass(IF gone THEN "DoesNotExist" ELSE "ValidationError")
    ELSE "ok"

delete_resource(r) ==
    /\ exists[r]
    /\ exists' = [q \in Resources |-> exists[q] /\ q \notin Collected(r)]
    /\ userRole' = DeleteResource(userRole, perms, r).R
    /\ perms' = DeleteResource(userRole, perms, r).P
    /\ UNCHANGED <<is_staff, is_superuser, pk, security_level, pc, loc, scenario>>

delete_user(u) ==
    /\ \E r \in Resources : userRole[u][r] # NoRole \/ perms[u][r] # {}
    /\ Commit(DeleteUser(userRole, perms, u))

NextDelete ==
    \/ \E lvl \in SecurityLevel : create_v3(Tree, Inv, lvl)
    \/ \E lvl \in SecurityLevel : perform_create_v2(Tree, "study", lvl)
    \/ \E r \in TreeResources, role \in RoleInputs : assign_role(Member, r, role)
    \/ \E r \in TreeResources : delete_resource(r)
    \/ \E u \in Users : delete_user(u)

SpecDelete == InitTree /\ [][NextDelete]_vars

---------------------------------------------------------------------------
(* Two requests running assign_role / remove_user_permissions on the       *)
(* investigation, one ORM call per step (autocommit, no transaction)       *)

OwnerPermList == <<PERMISSION_VIEW, PERMISSION_CHANGE, PERMISSION_DELETE, PERMISSION_MANAGE_PERMS>>

RolePermList(role) ==
    CASE role = "guest" -> <<>>
      [] role = "internal" -> <<PERMISSION_VIEW>>
      [] role = "authorized" -> <<PERMISSION_VIEW>>
      [] role = "contributor" -> <<PERMISSION_VIEW, PERMISSION_CHANGE>>
      [] role = "owner" -> OwnerPermList
      [] OTHER -> <<>>

(* both users own the investigation, grants in step with the roles *)
ConcR == [u \in Users |-> [r \in Resources |-> IF r = Inv THEN "owner" ELSE NoRole]]

ConcP == [u \in Users |-> [r \in Resources |-> IF r = Inv THEN ROLE_PERMISSIONS("owner") ELSE {}]]

Calls == [op : {"assign_role"}, user : Users, role : RoleInputs]
            \cup [op : {"remove_user_permissions"}, user : Users, role : {"none"}]

FirstStep(call) == IF call.op = "assign_role" THEN "validate" ELSE "get_role"

InitConc ==
    /\ is_staff = [u \in Users |-> FALSE]
    /\ is_superuser = [u \in Users |-> FALSE]
    /\ exists = [r \in Resources |-> r = Inv]
    /\ pk = [r \in Resources |-> IF r = Inv THEN 1 ELSE 0]
    /\ security_level = [r \in Resources |-> "confidential"]
    /\ userRole = ConcR
    /\ perms = ConcP
    /\ scenario = NoScenario
    /\ \E ca \in Calls, cb \in Calls :
          /\ ca.user = "u1"
          /\ loc = [p \in Procs |->
                      LET c == IF p = "A" THEN ca ELSE cb IN
                      [op |-> c.op, user |-> c.user, role |-> c.role,
                       current_role |-> "none", todo |-> <<>>, result |-> "none"]]
          /\ pc = [p \in Procs |-> FirstStep(IF p = "A" THEN ca ELSE cb)]

Frame == UNCHANGED <<is_staff, is_superuser, exists, pk, security_level, scenario>>

Finish(p, res) ==
    /\ pc' = [pc EXCEPT ![p] = "done"]
    /\ loc' = [loc EXCEPT ![p].result = res]

(* assign_role: if role not in ROLE_PERMISSIONS: raise ValueError *)
step_validate(p) ==
    /\ pc[p] = "validate"
    /\ IF loc[p].role \notin RoleKeys
       THEN Finish(p, "InvalidRoleError")
       ELSE pc' = [pc EXCEPT ![p] = "get_role"] /\ UNCHANGED loc
    /\ UNCHANGED db
    /\ Frame

(* remove_user_permissions: current_role = self.get_user_role(user) *)
step_get_role(p) ==
    /\ pc[p] = "get_role"
    /\ LET cur == get_user_role(perms, loc[p].user, Inv) IN
       /\ loc' = [loc EXCEPT ![p].current_role = cur, ![p].todo = OwnerPermList]
       /\ pc' = [pc EXCEPT ![p] = IF cur = "owner" THEN "count" ELSE "remove_perm"]
    /\ UNCHANGED db
    /\ Frame

(* remove_user_permissions: owner_count = self.get_users_by_role('owner').count() *)
step_count(p) ==
    /\ pc[p] = "count"
    /\ IF Cardinality(get_users_by_role(userRole, Inv, "owner")) <= 1
       THEN Finish(p, "LastOwnerError")
       ELSE pc' = [pc EXCEPT ![p] = "remove_perm"] /\ UNCHANGED loc
    /\ UNCHANGED db
    /\ Frame

(* remove_user_permissions: one remove_perm of the loop over ROLE_PERMISSIONS['owner'] *)
step_remove_perm(p) ==
    /\ pc[p] = "remove_perm"
    /\ perms' = [perms EXCEPT ![loc[p].user][Inv] = @ \ {Head(loc[p].todo)}]
    /\ loc' = [loc EXCEPT ![p].todo = Tail(@)]
    /\ pc' = [pc EXCEPT ![p] = IF Len(loc[p].todo) = 1 THEN "clear_role" ELSE "remove_perm"]
    /\ UNCHANGED userRole
    /\ Frame

(* remove_user_permissions: self.clear_user_role(user) *)
step_clear_role(p) ==
    /\ pc[p] = "clear_role"
    /\ userRole' = ModelClearUserRole(userRole, loc[p].user, Inv)
    /\ IF loc[p].op = "remove_user_permissions"
       THEN Finish(p, "ok")
       ELSE /\ loc' = [loc EXCEPT ![p].todo = RolePermList(loc[p].role)]
            /\ pc' = [pc EXCEPT ![p] = IF RolePermList(loc[p].role) = <<>>
                                         THEN "set_role" ELSE "assign_perm"]
    /\ UNCHANGED perms
    /\ Frame

(* assign_role: one assign_perm of the loop over the role's permissions *)
step_assign_perm(p) ==
    /\ pc[p] = "assign_perm"
    /\ perms' = [perms EXCEPT ![loc[p].user][Inv] = @ \cup {Head(loc[p].todo)}]
    /\ loc' = [loc EXCEPT ![p].todo = Tail(@)]
    /\ pc' = [pc EXCEPT ![p] = IF Len(loc[p].todo) = 1 THEN "set_role" ELSE "assign_perm"]
    /\ UNCHANGED userRole
    /\ Frame

(* assign_role: self.set_user_role(user, role) *)
step_set_role(p) ==
    /\ pc[p] = "set_role"
    /\ userRole' = ModelSetUserRole(userRole, loc[p].user, Inv, loc[p].role)
    /\ Finish(p, "ok")
    /\ UNCHANGED perms
    /\ Frame

NextConc ==
    \/ \E p \in Procs : step_validate(p)
    \/ \E p \in Procs : step_get_role(p)
    \/ \E p \in Procs : step_count(p)
    \/ \E p \in Procs : step_remove_perm(p)
    \/ \E p \in Procs : step_clear_role(p)
    \/ \E p \in Procs : step_assign_perm(p)
    \/ \E p \in Procs : step_set_role(p)

SpecConc == InitConc /\ [][NextConc]_vars

---------------------------------------------------------------------------
(* Reference notions the properties are stated with *)

Owners(R, r) == {u \in Users : R[u][r] = "owner"}

(* the grants a stored role stands for; none without a RoleAssignment *)
GrantsOf(R, u, r) == IF R[u][r] = NoRole THEN {} ELSE ROLE_PERMISSIONS(R[u][r])

(* the role decision of the design: flags first, then the stored assignment *)
decideRole(R, p, r) ==
    IF ~is_authenticated(p) THEN "guest"
    ELSE IF is_superuser[p] THEN "admin"
    ELSE IF R[p][r] # NoRole THEN R[p][r]
    ELSE IF is_staff[p] THEN "internal"
    ELSE "guest"

Unchanged(out) == out.R = userRole /\ out.P = perms

HoldsRole(R, p, r) == is_authenticated(p) /\ R[p][r] # NoRole

---------------------------------------------------------------------------
(* C1: a resource that has an owner still has one after any role mutation *)
(* issued through any entry point.                                        *)
C1_OwnerNeverLost ==
    [][\A r \in Resources :
          (exists[r] /\ Owners(userRole, r) # {}) => Owners(userRole', r) # {}]_vars

(* C2: for the only owner p1 of r, revoke and every assign of a non-owner  *)
(* role fail with the last-owner error and change nothing; once a second   *)
(* owner is assigned, revoke of p1 succeeds and removes p1's assignment    *)
(* and all of p1's grants.                                                 *)
C2_SoleOwnerProtected ==
    \A p1 \in Users :
        (exists[Inv] /\ Owners(userRole, Inv) = {p1}) =>
            /\ LET out == RemoveUserPermissions(userRole, perms, p1, Inv) IN
                  out.result = "LastOwnerError" /\ Unchanged(out)
            /\ \A role \in RoleKeys \ {"owner"} :
                  LET out == AssignRole(userRole, perms, p1, Inv, role) IN
                  out.result = "LastOwnerError" /\ Unchanged(out)
            /\ \A p2 \in Users \ {p1} :
                  LET second == AssignRole(userRole, perms, p2, Inv, "owner")
                      out == RemoveUserPermissions(second.R, second.P, p1, Inv)
                  IN second.result = "ok" =>
                        /\ out.result = "ok"
                        /\ out.R[p1][Inv] = NoRole
                        /\ out.P[p1][Inv] = {}

(* C4: in every reachable state the grants of p on r are ROLE_PERMISSIONS  *)
(* of p's stored role, and empty when p has no RoleAssignment on r.        *)
C4_GrantsMatchRole ==
    \A u \in Users, r \in Resources : perms[u][r] = GrantsOf(userRole, u, r)

(* C5: after assign(p, r, new) succeeds for p holding old, the grants of p *)
(* on r are exactly rolePermissions(new), with nothing left from old.      *)
C5_RoleChangeExact ==
    \A u \in Users, new \in RoleKeys :
        (exists[Inv] /\ userRole[u][Inv] \in RoleKeys) =>
            /\ LET out == AssignRole(userRole, perms, u, Inv, new) IN
                  out.result = "ok" => out.P[u][Inv] = ROLE_PERMISSIONS(new)
            /\ LET out == UtilSetUserRole(userRole, perms, u, Inv, new) IN
                  out.result = "ok" => out.P[u][Inv] = ROLE_PERMISSIONS(new)

(* C6: a second assign(p, r, role) with the same role succeeds and leaves  *)
(* the single RoleAssignment and the grants of the first call, also for    *)
(* role owner when p is the only owner.                                    *)
C6_AssignIdempotent ==
    \A u \in Users, role \in RoleKeys :
        exists[Inv] =>
            LET first == AssignRole(userRole, perms, u, Inv, role)
                again == AssignRole(first.R, first.P, u, Inv, role)
            IN first.result = "ok" =>
                  /\ again.result = "ok"
                  /\ again.R = first.R
                  /\ again.P = first.P

(* C9: for an Investigation, and for a Study when p holds no role on its   *)
(* Investigation, can_read(p, r) holds exactly when decideRole(p, r) is    *)
(* authorized, contributor, owner or admin, or r is public, or r is        *)
(* internal and decideRole(p, r) is internal.                              *)
C9_ReadMatrix ==
    \A p \in Principals, r \in Resources :
        (/\ exists[r]
         /\ parent(r) # "none" => ~HoldsRole(userRole, p, parent(r))) =>
            (can_read(perms, p, r) <=>
                \/ decideRole(userRole, p, r) \in {"authorized", "contributor", "owner", "admin"}
                \/ security_level[r] = "public"
                \/ security_level[r] = "internal" /\ decideRole(userRole, p, r) = "internal")

(* C10: get_user_role(p, r) equals the reference decision for every        *)
(* principal and every state of the RoleStore.                             *)
C10_RoleResolution ==
    \A p \in Principals :
        exists[Inv] => get_user_role(perms, p, Inv) = decideRole(userRole, p, Inv)

---------------------------------------------------------------------------
(* Properties of the interleaved requests *)

Other(p) == IF p = "A" THEN "B" ELSE "A"

NotStarted(p) == pc[p] \in {"validate", "get_role"} /\ loc[p].current_role = "none"

(* a call that takes the owner role away from its user: revoke or downgrade *)
Reduces(p) ==
    \/ loc[p].op = "remove_user_permissions"
    \/ loc[p].op = "assign_role" /\ loc[p].role \in RoleKeys \ {"owner"}

(* the outcome of a process's call when run alone on the initial database *)
SerialOutcome(p) ==
    IF loc[p].op = "assign_role"
    THEN AssignRole(ConcR, ConcP, loc[p].user, Inv, loc[p].role)
    ELSE RemoveUserPermissions(ConcR, ConcP, loc[p].user, Inv)

(* C3: of two concurrent revokes/downgrades of the two owners of r at most *)
(* one succeeds, and r ends with at least one owner.                       *)
C3_RacingRevokesSerialized ==
    (/\ pc["A"] = "done" /\ pc["B"] = "done"
     /\ loc["A"].user # loc["B"].user
     /\ Reduces("A") /\ Reduces("B")) =>
        /\ ~(loc["A"].result = "ok" /\ loc["B"].result = "ok")
        /\ Owners(userRole, Inv) # {}

(* C7: while a call on (p, r) is between two of its steps, the role and    *)
(* grants observed for (p, r) are those before the call or those after its *)
(* completion.                                                             *)
C7_AllOrNothing ==
    \A p \in Procs :
        NotStarted(Other(p)) =>
            LET u == loc[p].user
                out == SerialOutcome(p)
            IN <<userRole[u][Inv], perms[u][Inv]>> \in
                  {<<ConcR[u][Inv], ConcP[u][Inv]>>, <<out.R[u][Inv], out.P[u][Inv]>>}

(* C8: two concurrent assigns on the same (p, r) end with one              *)
(* RoleAssignment whose role is one of the two and with exactly the grants *)
(* of that role.                                                           *)
C8_ConcurrentAssignsSerialize ==
    (/\ pc["A"] = "done" /\ pc["B"] = "done"
     /\ loc["A"].op = "assign_role" /\ loc["B"].op = "assign_role"
     /\ loc["A"].user = loc["B"].user
     /\ loc["A"].role \in RoleKeys /\ loc["B"].role \in RoleKeys) =>
        LET u == loc["A"].user IN
        /\ userRole[u][Inv] \in {loc["A"].role, loc["B"].role}
        /\ perms[u][Inv] = ROLE_PERMISSIONS(userRole[u][Inv])

(* C11: can_write(p, r) is true exactly when the decided role of p on r is *)
(* contributor, owner or admin; a principal without a RoleAssignment on r  *)
(* and without the superuser flag cannot write, at any security level and  *)
(* whatever role it holds on the parent.                                   *)
C11_WriteDecision ==
    \A p \in Principals, r \in Resources :
        exists[r] =>
            /\ can_write(perms, p, r)
                  <=> decideRole(userRole, p, r) \in {"contributor", "owner", "admin"}
            /\ (~HoldsRole(userRole, p, r) /\ ~Superuser(p)) => ~can_write(perms, p, r)

(* C12: can_manage_permissions and IsOwnerOrAdmin are true for an owner of *)
(* r and for a superuser, false for a principal whose role on r is guest,  *)
(* internal, authorized or contributor.                                    *)
C12_ManageDecision ==
    \A p \in Principals, r \in Resources :
        exists[r] =>
            /\ decideRole(userRole, p, r) \in {"owner", "admin"}
                  => (can_manage_permissions(perms, p, r) /\ IsOwnerOrAdmin(perms, p, r))
            /\ decideRole(userRole, p, r) \in {"guest", "internal", "authorized", "contributor"}
                  => (~can_manage_permissions(perms, p, r) /\ ~IsOwnerOrAdmin(perms, p, r))

(* C13: a resource of any type whose security level is public (an assay:  *)
(* whose study is public) is readable by every principal, the             *)
(* unauthenticated one and those without any RoleAssignment included.     *)
C13_PublicReadable ==
    \A p \in Principals, r \in Resources :
        (exists[r] /\ obj_security_level(r) = "public") => can_read(perms, p, r)

(* a public investigation, a public sample and an assay of a public study, *)
(* read by the anonymous principal and by a plain user who holds no role   *)
(* and no grant anywhere                                                   *)
C13_Witness ==
    /\ exists["assay"] /\ exists["sample"]
    /\ security_level["investigation"] = "public"
    /\ security_level["study"] = "public" /\ security_level["sample"] = "public"
    /\ ~is_staff["u2"] /\ ~is_superuser["u2"]
    /\ \A r \in HierResources : userRole["u2"][r] = NoRole /\ perms["u2"][r] = {}
    /\ can_read(perms, Anonymous, "assay") /\ can_read(perms, Anonymous, "investigation")
    /\ can_read(perms, "u2", "sample") /\ can_read(perms, "u2", "study")

(* C14: a confidential resource is visible in listings to nobody, owners  *)
(* and superusers included, while every owner of it can read it.          *)
C14_ConfidentialHidden ==
    \A p \in Principals, r \in Resources :
        (exists[r] /\ obj_security_level(r) = "confidential") =>
            /\ ~is_visible(perms, p, r)
            /\ (is_authenticated(p) /\ userRole[p][r] = "owner") => can_read(perms, p, r)

Range(seq) == {seq[i] : i \in 1..Len(seq)}

(* C15: no listing path returns a confidential resource to any principal, *)
(* owners, principals with grants and superusers included.                *)
C15_ListingsHideConfidential ==
    \A p \in Principals :
        \A r \in Range(InvestigationServiceList(perms, p))
                  \cup Range(V1InvestigationQueryset(perms, p))
                  \cup Range(V2InvestigationQueryset(perms, p))
                  \cup Range(ObjectVisibilityFilterQueryset(perms, p)) :
            security_level[r] # "confidential"

(* C16: InvestigationService.list(user) is, in ascending id order, exactly *)
(* the non-confidential investigations the user can read: every public one *)
(* for any user, every restricted one on which the user is authorized or   *)
(* above, none of the restricted ones on which the user holds no role.     *)
C16_ServiceListExact ==
    \A p \in Principals :
        LET listed == InvestigationServiceList(perms, p) IN
        /\ Range(listed) = {r \in base_queryset :
                               security_level[r] # "confidential" /\ can_read(perms, p, r)}
        /\ \A i, j \in 1..Len(listed) : i < j => pk[listed[i]] < pk[listed[j]]
        /\ \A r \in base_queryset :
              /\ security_level[r] = "public" => r \in Range(listed)
              /\ (security_level[r] = "restricted" /\ ~HoldsRole(userRole, p, r)
                     /\ ~Superuser(p)) => r \notin Range(listed)

(* C17: a principal (not a superuser, whose write access is that of admin) *)
(* without a RoleAssignment on a study but owner of the study's            *)
(* investigation can read the study at every security level, confidential *)
(* included, and cannot write it.                                          *)
C17_ParentOwnerReadsStudy ==
    \A p \in Users :
        (/\ exists["study"]
         /\ ~is_superuser[p]
         /\ userRole[p]["study"] = NoRole
         /\ userRole[p][parent("study")] = "owner")
        => (can_read(perms, p, "study") /\ ~can_write(perms, p, "study"))

Children == {"study", "assay"}

(* read access a child gets from its own grants and security level *)
OwnReadAccess(P, p, c) ==
    has_perm(P, p, PERMISSION_VIEW, c) \/ BaseCheckSecurityLevelRead(P, p, c)

(* C18: for a child c (study or assay) with parent q, when c's own grants *)
(* and security level give p no read access, can_read(p, c) equals        *)
(* can_read(p, q); so can_read(p, q) implies can_read(p, c), for every    *)
(* role of p on q and every security level of q and c.                    *)
C18_ChildReadFromParent ==
    \A p \in Principals, c \in Children :
        exists[c] =>
            /\ ~OwnReadAccess(perms, p, c)
                  => (can_read(perms, p, c) <=> can_read(perms, p, parent(c)))
            /\ can_read(perms, p, parent(c)) => can_read(perms, p, c)

(* C19: read access is inherited over two levels: a principal (not a      *)
(* superuser) who is owner of the investigation and holds no              *)
(* RoleAssignment on the study or the assay can read the assay at every   *)
(* security level of the study, and cannot write it.                      *)
C19_AssayReadFromInvestigation ==
    \A p \in Users :
        (/\ exists["assay"]
         /\ ~is_superuser[p]
         /\ userRole[p]["assay"] = NoRole
         /\ userRole[p]["study"] = NoRole
         /\ userRole[p]["investigation"] = "owner")
        => (can_read(perms, p, "assay") /\ ~can_write(perms, p, "assay"))

(* what a user may do on the restricted investigation of the access test *)
AccessOf(P, u) ==
    <<can_read(P, u, Inv), can_write(P, u, Inv), can_manage_permissions(P, u, Inv)>>

(* the decisions the access test expects at each of its positions *)
ScenarioExpected ==
    /\ scenario.at = "owner" =>
          /\ can_read(perms, scenario.U1, Inv)
          /\ ~can_read(perms, scenario.U2, Inv)
          /\ ~can_write(perms, scenario.U2, Inv)
    /\ scenario.at = "authorized" =>
          /\ can_read(perms, scenario.U2, Inv)
          /\ ~can_write(perms, scenario.U2, Inv)
    /\ scenario.at = "contributor" => can_write(perms, scenario.U2, Inv)

(* the assigns to U2 leave what U1 may do as it was *)
ScenarioOwnerKept ==
    scenario.at \in {"owner", "authorized"}
        => AccessOf(perms', scenario.U1) = AccessOf(perms, scenario.U1)

(* C20: along create restricted I; assign(U1, I, owner); assign(U2, I,     *)
(* authorized); assign(U2, I, contributor) with plain users: after the     *)
(* first assign U1 reads and U2 neither reads nor writes; after the second *)
(* U2 reads and does not write; after the third U2 writes; the assigns to  *)
(* U2 leave U1's access unchanged.                                         *)
C20_AccessScenario == []ScenarioExpected /\ [][ScenarioOwnerKept]_vars

(* the end of the access test, reached while the other investigation is in use *)
C20_Witness ==
    /\ scenario.at = "contributor"
    /\ userRole[scenario.U1][Inv] = "owner"
    /\ userRole[scenario.U2][Inv] = "contributor"
    /\ can_write(perms, scenario.U2, Inv)
    /\ can_read(perms, scenario.U1, Inv)
    /\ exists[Inv2]

(* C21: an assignment whose role is not one of guest, internal,           *)
(* authorized, contributor, owner (admin included) is rejected with the   *)
(* invalid-role error before anything is changed, through assign_role,    *)
(* the models' set_user_role, permissions.set_user_role and the endpoint; *)
(* so no stored RoleAssignment has role admin or an unrecognized role.    *)
C21_InvalidRoleRejected ==
    /\ \A u \in Users, r \in Resources : userRole[u][r] \in RoleKeys \cup {NoRole}
    /\ \A u \in Users, role \in RoleInputs \ RoleKeys :
          exists[Inv] =>
            /\ AssignRole(userRole, perms, u, Inv, role).result = "InvalidRoleError"
            /\ Unchanged(AssignRole(userRole, perms, u, Inv, role))
            /\ UtilSetUserRole(userRole, perms, u, Inv, role).result = "InvalidRoleError"
            /\ Unchanged(UtilSetUserRole(userRole, perms, u, Inv, role))
            /\ EndpointAssignRole(userRole, perms, u, Inv, role).result = "InvalidRoleError"
            /\ Unchanged(EndpointAssignRole(userRole, perms, u, Inv, role))
            /\ ModelSetUserRole(userRole, u, Inv, role) = userRole

(* C22: the step that creates a resource for the creator c, through any   *)
(* creation path, leaves c with the owner RoleAssignment and the complete *)
(* owner grant set on it, so that c can read it, write it and manage its  *)
(* permissions.                                                           *)
C22_CreatorIsOwner ==
    [][\A r \in TreeResources :
          (~exists[r] /\ exists'[r]) =>
              /\ userRole'[Tree][r] = "owner"
              /\ perms'[Tree][r] = ROLE_PERMISSIONS("owner")
              /\ (can_read(perms, Tree, r))'
              /\ (can_write(perms, Tree, r))'
              /\ (can_manage_permissions(perms, Tree, r))']_vars

(* C24: the last-owner guard reads the stored owner assignments and not   *)
(* the flags of the principal: when the only owner of r is a superuser,   *)
(* revoke of that principal and assign of a non-owner role to it, through *)
(* remove_user_permissions, assign_role and remove_investigation_user,    *)
(* fail with the last-owner error and r keeps its owner.                  *)
C24_SuperuserSoleOwnerProtected ==
    \A p1 \in Users :
        (exists[Inv] /\ is_superuser[p1] /\ Owners(userRole, Inv) = {p1}) =>
            /\ LET out == RemoveUserPermissions(userRole, perms, p1, Inv) IN
                  out.result = "LastOwnerError" /\ Owners(out.R, Inv) = {p1}
            /\ \A role \in RoleKeys \ {"owner"} :
                  LET out == AssignRole(userRole, perms, p1, Inv, role) IN
                  out.result = "LastOwnerError" /\ Owners(out.R, Inv) = {p1}
            /\ LET out == EndpointRemoveUser(userRole, perms, p1, Inv) IN
                  out.result = "LastOwnerError" /\ Owners(out.R, Inv) = {p1}

(* C26: single-item retrieval of an investigation is allowed exactly when *)
(* can_read holds: InvestigationService.get, the v2 get_object and the v1 *)
(* get_object give the same answer as can_read for every principal and    *)
(* every investigation, so a public investigation is retrievable by a     *)
(* user who holds no role on it.                                          *)
C26_RetrievalIsCanRead ==
    \A p \in Principals, r \in Investigations :
        exists[r] =>
            /\ (InvestigationServiceGet(perms, p, r) = "ok") <=> can_read(perms, p, r)
            /\ (V2InvestigationGetObject(perms, p, r) = "ok") <=> can_read(perms, p, r)
            /\ (V1InvestigationGetObject(perms, p, r) = "ok") <=> can_read(perms, p, r)

(* C27: the two role readers agree: for every principal and every         *)
(* existing resource, GuardianMixin.get_user_role (from the grants) and    *)
(* permissions.get_user_role (from the RoleAssignment) return the same     *)
(* role.                                                                   *)
C27_RoleReadersAgree ==
    \A p \in Principals, r \in Resources :
        exists[r] => get_user_role(perms, p, r) = util_get_user_role(userRole, p, r)

(* C29: permissions.clear_user_role fails with ValueError and deletes     *)
(* nothing when the user is the last owner of the object; otherwise it    *)
(* deletes the user's RoleAssignment and the four permissions view,       *)
(* change, delete and manage_permissions.                                 *)
C29_ClearUserRoleGuarded ==
    \A u \in Users :
        exists[Inv] =>
            LET out == UtilClearUserRole(userRole, perms, u, Inv) IN
            IF Owners(userRole, Inv) = {u}
            THEN out.result = "ValueError" /\ Unchanged(out)
            ELSE /\ out.result = "ok"
                 /\ out.R[u][Inv] = NoRole
                 /\ out.P[u][Inv] \cap ROLE_PERMISSIONS("owner") = {}

(* C25: every resource a listing path returns to a principal is one the   *)
(* principal can read: the investigation listings (v1, v2, v3, the        *)
(* visibility filter) and the study and assay listings, rows listed on    *)
(* the strength of permissions on the parent investigation included.      *)
C25_ListedIsReadable ==
    \A p \in Principals :
        \A r \in Range(InvestigationServiceList(perms, p))
                  \cup Range(V1InvestigationQueryset(perms, p))
                  \cup Range(V2InvestigationQueryset(perms, p))
                  \cup Range(ObjectVisibilityFilterQueryset(perms, p))
                  \cup V2StudyQueryset(perms, p)
                  \cup V2AssayQueryset(perms, p) :
            can_read(perms, p, r)

(* C23: deleting a resource is never refused by the last-owner guard and  *)
(* deletes every RoleAssignment and every grant on it: no RoleAssignment  *)
(* and no grant refers to a resource that does not exist.                 *)
C23_DeletionCascades ==
    /\ \A r \in Resources :
          exists[r] => DeleteResource(userRole, perms, r).result = "ok"
    /\ \A u \in Users, r \in Resources :
          ~exists[r] => (userRole[u][r] = NoRole /\ perms[u][r] = {})

(* C28: deleting the user who holds the only owner RoleAssignment on an   *)
(* existing resource is refused or leaves the resource with an owner.     *)
C28_UserDeletionKeepsOwner ==
    \A u \in Users, r \in Resources :
        (exists[r] /\ Owners(userRole, r) = {u}) =>
            LET out == DeleteUser(userRole, perms, u) IN
            out.result # "ok" \/ Owners(out.R, r) # {}

(* C30: the pre_delete handler of the investigation's permission rows     *)
(* raises ValidationError for a row with role owner that is the last      *)
(* owner row while the investigation is not being deleted, and lets the   *)
(* deletion proceed when the investigation is being deleted or another    *)
(* owner exists.                                                          *)
C30_HandlerBlocksLastOwner ==
    \A u \in Users :
        (pk[Inv] # 0 /\ userRole[u][Inv] # NoRole) =>
            LET owner_count == Cardinality(Owners(userRole, Inv))
                outcome == prevent_delete_last_investigation_owner(
                               userRole[u][Inv], owner_count, ~exists[Inv])
            IN IF userRole[u][Inv] = "owner" /\ owner_count <= 1 /\ exists[Inv]
               THEN outcome = "ValidationError"
               ELSE outcome = "ok"

====
